---- MODULE Spec2Model ----
(***************************************************************************)
(* A model of the paint grid of GivoniT/23-S1-A1_TOM_GIVONI: the three     *)
(* LayerStore variants (layer_store.py), the Grid (grid.py), the           *)
(* UndoTracker (undo.py) and the ReplayTracker (replay.py).                *)
(*                                                                         *)
(* A layer is identified by its catalog index (layer.index); its name is   *)
(* LayerName(l). A colour is kept symbolically, as the start colour        *)
(* followed by the indexes of the layers applied to it, so that two        *)
(* colours are equal only when the same layers were applied in the same    *)
(* order. A call's outcome is the returned value (ret) and the exception   *)
(* that left the call, if any (exc).                                       *)
(***************************************************************************)
EXTENDS Integers, Sequences, FiniteSets, TLC

----------------------------------------------------------------------------
\* Bounds of the model. The four capacities are the program's constants
\* (10000, 10000, 100*9) scaled down so that "full" is reached.
NumLayers == 4
NumCells == 2
MAX_OPERATIONS == 2
REPLAY_MAX_CAPACITY == 3
ADDITIVE_MAX_CAPACITY == 2

\* SequenceLayerStore.MAX_CAPACITY
SEQUENCE_MAX_CAPACITY == 1000

----------------------------------------------------------------------------
\* The layer catalog (layers.py / layer_util.py): index i is registered
\* under LayerNames[i + 1].
LayerNames ==
    <<"rainbow", "black", "lighten", "invert", "red", "blue", "green", "darken", "sparkle">>

\* The catalog's names in lexicographic (str <) order.
NameOrder ==
    <<"black", "blue", "darken", "green", "invert", "lighten", "rainbow", "red", "sparkle">>

Layers == 0 .. (NumLayers - 1)

LayerName(l) == LayerNames[l + 1]

NameRank(l) == CHOOSE k \in 1 .. Len(NameOrder) : NameOrder[k] = LayerName(l)

\* key comparison of two ListItems (key = layer.name)
NameLess(a, b) == NameRank(a) < NameRank(b)

\* layers.invert
invert == CHOOSE l \in 0 .. (Len(LayerNames) - 1) : LayerNames[l + 1] = "invert"

\* Layer.apply(color, timestamp, x, y): pure; kept uninterpreted.
LayerApply(l, color) == Append(color, l)

StartColors == {<<100>>, <<200>>}

None == -1
NoExc == "none"

\* what a call on a store leaves: the store, the returned value ("True",
\* "False", "None" or "Color" with the colour in color) and the exception
Outcome(s, r, e) == [store |-> s, ret |-> r, color |-> <<>>, exc |-> e]

ColorOutcome(s, c) == [store |-> s, ret |-> "Color", color |-> c, exc |-> NoExc]

----------------------------------------------------------------------------
\* data_structures: CircularQueue, ArrayStack, BSet, ArraySortedList.
\* A queue or stack is the sequence of its items, oldest first.

QueueIsFull(q, capacity) == Len(q) = capacity

\* CircularQueue.append: raises Exception("Queue is full") on a full queue
QueueAppend(q, capacity, item) ==
    IF QueueIsFull(q, capacity)
    THEN [queue |-> q, exc |-> "Exception"]
    ELSE [queue |-> Append(q, item), exc |-> NoExc]

\* CircularQueue.serve on a non-empty queue: the front item leaves
QueueServe(q) == [queue |-> Tail(q), item |-> Head(q)]

\* ArrayStack.push: raises Exception("Stack is full") on a full stack;
\* the top is the last item
StackPush(s, capacity, item) ==
    IF Len(s) = capacity
    THEN [stack |-> s, exc |-> "Exception"]
    ELSE [stack |-> Append(s, item), exc |-> NoExc]

\* ArrayStack.pop on a non-empty stack

StackPop(s) == [stack |-> SubSeq(s, 1, Len(s) - 1), item |-> s[Len(s)]]

\* BSet.__contains__, add, remove: items are positive integers, anything
\* else raises TypeError; remove of an absent item raises KeyError
BSetValid(item) == item > 0

\* ArraySortedList._index_to_add + add: insert keeping keys ascending
SortedAdd(lst, l) ==
    LET before == SelectSeq(lst, LAMBDA e : NameLess(e, l))
        after == SelectSeq(lst, LAMBDA e : ~NameLess(e, l))
    IN before \o <<l>> \o after

\* ArraySortedList.__contains__
SortedContains(lst, l) == \E k \in 1 .. Len(lst) : lst[k] = l

\* ArraySortedList.delete_at_index (0-based index)
SortedDeleteAt(lst, idx) ==
    [list |-> SubSeq(lst, 1, idx) \o SubSeq(lst, idx + 2, Len(lst)), item |-> lst[idx + 1]]

\* ArraySortedList.index (0-based), for an item the list contains
SortedIndex(lst, l) == (CHOOSE k \in 1 .. Len(lst) : lst[k] = l) - 1

----------------------------------------------------------------------------
\* LayerStore instances. One record shape serves the three variants; a
\* variant reads and writes its own fields only.
NewStore ==
    [current_layer |-> None, special_flag |-> FALSE,
     current_layers |-> <<>>,
     current_layers_name |-> <<>>, current_layers_index |-> {}]

\* ---- SetLayerStore ----
\* SetAdd without the equality test: every add replaces and reports a change
SetAddAlwaysReplaces(s, layer) ==
    Outcome([s EXCEPT !.current_layer = layer], "True", NoExc)

SetAdd(s, layer) ==
    IF s.current_layer = layer
    THEN Outcome(s, "False", NoExc)
    ELSE Outcome([s EXCEPT !.current_layer = layer], "True", NoExc)

SetErase(s, layer) ==
    IF s.current_layer = None
    THEN Outcome(s, "False", NoExc)
    ELSE Outcome([s EXCEPT !.current_layer = None], "True", NoExc)

\* SetSpecial that only ever sets the flag
SetSpecialOnlySets(s) == Outcome([s EXCEPT !.special_flag = TRUE], "None", NoExc)

SetSpecial(s) ==
    IF s.special_flag
    THEN Outcome([s EXCEPT !.special_flag = FALSE], "None", NoExc)
    ELSE Outcome([s EXCEPT !.special_flag = TRUE], "None", NoExc)

SetGetColor(s, start) ==
    LET return_value ==
            IF s.current_layer = None THEN start ELSE LayerApply(s.current_layer, start)
    IN IF s.special_flag
       THEN ColorOutcome(s, LayerApply(invert, return_value))
       ELSE ColorOutcome(s, return_value)

\* ---- AdditiveLayerStore ----
AdditiveAdd(s, layer) ==
    IF QueueIsFull(s.current_layers, ADDITIVE_MAX_CAPACITY)
    THEN Outcome(s, "False", NoExc)
    ELSE Outcome(
             [s EXCEPT !.current_layers =
                 QueueAppend(s.current_layers, ADDITIVE_MAX_CAPACITY, layer).queue],
             "True", NoExc)

\* AdditiveErase removing the newest layer instead of the oldest
AdditiveEraseNewest(s, layer) ==
    IF s.current_layers = <<>>
    THEN Outcome(s, "False", NoExc)
    ELSE Outcome([s EXCEPT !.current_layers = SubSeq(@, 1, Len(@) - 1)], "True", NoExc)

AdditiveErase(s, layer) ==
    IF s.current_layers = <<>>
    THEN Outcome(s, "False", NoExc)
    ELSE Outcome([s EXCEPT !.current_layers = QueueServe(s.current_layers).queue],
                 "True", NoExc)

\* the first loop of special: serve every layer, push it on temp_stack
RECURSIVE DrainToStack(_, _, _)
DrainToStack(queue, temp_stack, n) ==
    IF n = 0
    THEN [queue |-> queue, stack |-> temp_stack, exc |-> NoExc]
    ELSE LET served == QueueServe(queue)
             pushed == StackPush(temp_stack, ADDITIVE_MAX_CAPACITY, served.item)
         IN IF pushed.exc # NoExc
            THEN [queue |-> served.queue, stack |-> temp_stack, exc |-> pushed.exc]
            ELSE DrainToStack(served.queue, pushed.stack, n - 1)

\* the second loop of special: pop every layer, append it to the queue
RECURSIVE RefillFromStack(_, _, _)
RefillFromStack(queue, temp_stack, n) ==
    IF n = 0
    THEN [queue |-> queue, exc |-> NoExc]
    ELSE LET popped == StackPop(temp_stack)
             appended == QueueAppend(queue, ADDITIVE_MAX_CAPACITY, popped.item)
         IN IF appended.exc # NoExc
            THEN [queue |-> queue, exc |-> appended.exc]
            ELSE RefillFromStack(appended.queue, popped.stack, n - 1)

\* AdditiveSpecial refilling through a queue: the order is kept
AdditiveSpecialKeepsOrder(s) == Outcome(s, "None", NoExc)

AdditiveSpecial(s) ==
    IF s.current_layers = <<>>
    THEN Outcome(s, "None", NoExc)
    ELSE LET drained == DrainToStack(s.current_layers, <<>>, Len(s.current_layers))
         IN IF drained.exc # NoExc
            THEN Outcome([s EXCEPT !.current_layers = drained.queue],
                         "None", drained.exc)
            ELSE LET refilled ==
                         RefillFromStack(drained.queue, drained.stack,
                                         Len(drained.stack))
                 IN Outcome([s EXCEPT !.current_layers = refilled.queue],
                            "None", refilled.exc)

\* the loop of get_color that appends the layer again before serving it
RECURSIVE AdditiveFoldAppendsFirst(_, _, _)
AdditiveFoldAppendsFirst(queue, return_value, n) ==
    IF n = 0
    THEN [queue |-> queue, color |-> return_value, exc |-> NoExc]
    ELSE LET appended == QueueAppend(queue, ADDITIVE_MAX_CAPACITY, Head(queue))
         IN IF appended.exc # NoExc
            THEN [queue |-> queue, color |-> return_value, exc |-> appended.exc]
            ELSE AdditiveFoldAppendsFirst(
                     QueueServe(appended.queue).queue,
                     LayerApply(Head(queue), return_value), n - 1)

\* the loop of get_color: serve a layer, apply it, append it again
RECURSIVE AdditiveFold(_, _, _)
AdditiveFold(queue, return_value, n) ==
    IF n = 0
    THEN [queue |-> queue, color |-> return_value, exc |-> NoExc]
    ELSE LET served == QueueServe(queue)
             appended == QueueAppend(served.queue, ADDITIVE_MAX_CAPACITY, served.item)
         IN IF appended.exc # NoExc
            THEN [queue |-> served.queue, color |-> return_value, exc |-> appended.exc]
            ELSE AdditiveFold(appended.queue,
                              LayerApply(served.item, return_value), n - 1)

\* get_color that serves the layers without appending them again
AdditiveGetColorDrains(s, start) ==
    ColorOutcome([s EXCEPT !.current_layers = <<>>],
                 AdditiveFold(s.current_layers, start, Len(s.current_layers)).color)

AdditiveGetColor(s, start) ==
    IF s.current_layers = <<>>
    THEN ColorOutcome(s, start)
    ELSE LET folded == AdditiveFold(s.current_layers, start, Len(s.current_layers))
             result == [s EXCEPT !.current_layers = folded.queue]
         IN IF folded.exc # NoExc
            THEN Outcome(result, "None", folded.exc)
            ELSE ColorOutcome(result, folded.color)

\* ---- SequenceLayerStore ----
\* NUMBER_OF_LAYERS = len(get_layers()) - 1
NUMBER_OF_LAYERS == NumLayers - 1

SequenceAdd(s, layer) ==
    IF Len(s.current_layers_name) >= SEQUENCE_MAX_CAPACITY
       \/ SortedContains(s.current_layers_name, layer)
    THEN Outcome(s, "False", NoExc)
    ELSE Outcome(
             [s EXCEPT !.current_layers_name = SortedAdd(@, layer),
                       !.current_layers_index = @ \cup {layer + 1}],
             "True", NoExc)

\* SequenceErase that forgets the index set
SequenceEraseNameOnly(s, layer) ==
    IF ~SortedContains(s.current_layers_name, layer)
    THEN Outcome(s, "False", NoExc)
    ELSE Outcome([s EXCEPT !.current_layers_name =
                     SortedDeleteAt(@, SortedIndex(@, layer)).list],
                 "True", NoExc)

SequenceErase(s, layer) ==
    IF s.current_layers_name = <<>>
    THEN Outcome(s, "False", NoExc)
    ELSE IF ~BSetValid(layer)
    THEN Outcome(s, "None", "TypeError")
    ELSE IF layer \notin s.current_layers_index
    THEN Outcome(s, "False", NoExc)
    ELSE IF ~SortedContains(s.current_layers_name, layer)
    THEN Outcome(s, "None", "ValueError")
    ELSE LET removed ==
                 [s EXCEPT !.current_layers_name =
                     SortedDeleteAt(@, SortedIndex(@, layer)).list]
         IN IF (layer + 1) \notin s.current_layers_index
            THEN Outcome(removed, "None", "KeyError")
            ELSE Outcome([removed EXCEPT !.current_layers_index = @ \ {layer + 1}],
                         "True", NoExc)

\* SequenceSpecial taking the upper of the two middle names (k // 2)
SequenceSpecialUpperMedian(s) ==
    IF s.current_layers_name = <<>>
    THEN Outcome(s, "None", NoExc)
    ELSE LET deleted ==
                 SortedDeleteAt(s.current_layers_name,
                                Cardinality(s.current_layers_index) \div 2)
         IN Outcome(
                [s EXCEPT !.current_layers_name = deleted.list,
                          !.current_layers_index = @ \ {deleted.item + 1}],
                "None", NoExc)

SequenceSpecial(s) ==
    IF s.current_layers_name = <<>>
    THEN Outcome(s, "None", NoExc)
    ELSE LET lexicographically_smaller_median ==
                 (Cardinality(s.current_layers_index) - 1) \div 2
         IN IF lexicographically_smaller_median \notin 0 .. (Len(s.current_layers_name) - 1)
            THEN Outcome(s, "None", "IndexError")
            ELSE LET deleted ==
                         SortedDeleteAt(s.current_layers_name,
                                        lexicographically_smaller_median)
                     removed == [s EXCEPT !.current_layers_name = deleted.list]
                 IN IF (deleted.item + 1) \notin s.current_layers_index
                    THEN Outcome(removed, "None", "KeyError")
                    ELSE Outcome(
                             [removed EXCEPT
                                 !.current_layers_index = @ \ {deleted.item + 1}],
                             "None", NoExc)

\* the loop of get_color over range(NUMBER_OF_LAYERS)
RECURSIVE SequenceFold(_, _, _)
SequenceFold(index_set, return_value, i) ==
    IF i >= NUMBER_OF_LAYERS
    THEN return_value
    ELSE SequenceFold(
             index_set,
             IF (i + 1) \in index_set THEN LayerApply(i, return_value) ELSE return_value,
             i + 1)

SequenceGetColor(s, start) ==
    IF s.current_layers_index = {}
    THEN ColorOutcome(s, start)
    ELSE ColorOutcome(s, SequenceFold(s.current_layers_index, start, 0))

----------------------------------------------------------------------------
\* The variant behind the LayerStore contract (the class of the instance;
\* Grid.initialising_grid picks it from draw_style, anything unrecognised
\* falls back to SetLayerStore).
DRAW_STYLE_SET == "SET"
DRAW_STYLE_ADD == "ADD"
DRAW_STYLE_SEQUENCE == "SEQUENCE"
DRAW_STYLE_OPTIONS == {DRAW_STYLE_SET, DRAW_STYLE_ADD, DRAW_STYLE_SEQUENCE}

LayerStoreAdd(style, s, layer) ==
    CASE style = DRAW_STYLE_SEQUENCE -> SequenceAdd(s, layer)
      [] style = DRAW_STYLE_ADD -> AdditiveAdd(s, layer)
      [] OTHER -> SetAdd(s, layer)

LayerStoreErase(style, s, layer) ==
    CASE style = DRAW_STYLE_SEQUENCE -> SequenceErase(s, layer)
      [] style = DRAW_STYLE_ADD -> AdditiveErase(s, layer)
      [] OTHER -> SetErase(s, layer)

LayerStoreSpecial(style, s) ==
    CASE style = DRAW_STYLE_SEQUENCE -> SequenceSpecial(s)
      [] style = DRAW_STYLE_ADD -> AdditiveSpecial(s)
      [] OTHER -> SetSpecial(s)

LayerStoreGetColor(style, s, start) ==
    CASE style = DRAW_STYLE_SEQUENCE -> SequenceGetColor(s, start)
      [] style = DRAW_STYLE_ADD -> AdditiveGetColor(s, start)
      [] OTHER -> SetGetColor(s, start)

----------------------------------------------------------------------------
\* Grid (grid.py): cell c stands for one grid square grid[x][y]; the grid
\* holds one LayerStore of the draw style's variant per square.
Cells == 1 .. NumCells

\* Grid.DEFAULT_BRUSH_SIZE, MAX_BRUSH, MIN_BRUSH
DEFAULT_BRUSH_SIZE == 2
MAX_BRUSH == 5
MIN_BRUSH == 0

\* Grid.initialising_grid
NewGrid == [c \in Cells |-> NewStore]

\* Grid.special: special() on every square, in order; an exception leaves
\* the loop where it is raised
RECURSIVE GridSpecialFrom(_, _, _)
GridSpecialFrom(style, g, c) ==
    IF c > NumCells
    THEN [grid |-> g, exc |-> NoExc]
    ELSE LET out == LayerStoreSpecial(style, g[c])
             g2 == [g EXCEPT ![c] = out.store]
         IN IF out.exc # NoExc
            THEN [grid |-> g2, exc |-> out.exc]
            ELSE GridSpecialFrom(style, g2, c + 1)

GridSpecial(style, g) == GridSpecialFrom(style, g, 1)

----------------------------------------------------------------------------
\* PaintAction and PaintStep (action.py): an action is a special marker or a
\* sequence of steps [cell, layer, op]; the forward effect of a step adds
\* (op "add") or erases (op "erase") its layer on its square, the inverse
\* effect does the opposite.
PaintStep(cell, layer, op) == [cell |-> cell, layer |-> layer, op |-> op]

PaintAction(steps, is_special) == [steps |-> steps, is_special |-> is_special]

SpecialAction == PaintAction(<<>>, TRUE)

EmptyAction == PaintAction(<<>>, FALSE)

NoAction == EmptyAction

\* PaintStep.redo_apply / undo_apply
StepApply(style, g, step, undoing) ==
    LET adds == (step.op = "add") # undoing
        out == IF adds
               THEN LayerStoreAdd(style, g[step.cell], step.layer)
               ELSE LayerStoreErase(style, g[step.cell], step.layer)
    IN [grid |-> [g EXCEPT ![step.cell] = out.store], exc |-> out.exc]

\* the loop over the steps of an action
RECURSIVE StepsApply(_, _, _, _)
StepsApply(style, g, steps, undoing) ==
    IF steps = <<>>
    THEN [grid |-> g, exc |-> NoExc]
    ELSE LET out == StepApply(style, g, Head(steps), undoing)
         IN IF out.exc # NoExc
            THEN out
            ELSE StepsApply(style, out.grid, Tail(steps), undoing)

\* PaintAction.redo_apply
ActionRedoApply(style, g, action) ==
    IF action.is_special
    THEN GridSpecial(style, g)
    ELSE StepsApply(style, g, action.steps, FALSE)

\* PaintAction.undo_apply: undoing a special action is special() again
ActionUndoApply(style, g, action) ==
    IF action.is_special
    THEN GridSpecial(style, g)
    ELSE StepsApply(style, g, action.steps, TRUE)

\* the actions the callers paint with: the special action, single squares,
\* an erasing step and a stroke over every square
DrawAction(cell, layer) == PaintAction(<<PaintStep(cell, layer, "add")>>, FALSE)

EraseAction(cell, layer) == PaintAction(<<PaintStep(cell, layer, "erase")>>, FALSE)

RECURSIVE StrokeSteps(_, _)
StrokeSteps(c, layer) ==
    IF c > NumCells THEN <<>>
    ELSE <<PaintStep(c, layer, "add")>> \o StrokeSteps(c + 1, layer)

StrokeAction(layer) == PaintAction(StrokeSteps(1, layer), FALSE)

PaintActions ==
    {SpecialAction, DrawAction(1, 0), DrawAction(1, 1), EraseAction(1, 1), StrokeAction(1)}


----------------------------------------------------------------------------
\* UndoTracker (undo.py): the two stacks, the top last.

\* add_action with clear_redo left out
UndoAddActionKeepsRedo(undo, redo, action) ==
    IF Len(undo) = MAX_OPERATIONS
    THEN [undo |-> undo, redo |-> redo, exc |-> NoExc]
    ELSE [undo |-> StackPush(undo, MAX_OPERATIONS, action).stack, redo |-> redo,
          exc |-> NoExc]

\* add_action overwriting the top of a full stack instead of returning
UndoAddActionOverwrites(undo, redo, action) ==
    IF Len(undo) = MAX_OPERATIONS
    THEN [undo |-> Append(SubSeq(undo, 1, Len(undo) - 1), action), redo |-> <<>>,
          exc |-> NoExc]
    ELSE [undo |-> StackPush(undo, MAX_OPERATIONS, action).stack, redo |-> <<>>,
          exc |-> NoExc]

\* UndoTracker.add_action and clear_redo
UndoAddAction(undo, redo, action) ==
    IF Len(undo) = MAX_OPERATIONS
    THEN [undo |-> undo, redo |-> redo, exc |-> NoExc]
    ELSE [undo |-> StackPush(undo, MAX_OPERATIONS, action).stack, redo |-> <<>>,
          exc |-> NoExc]

Moved(undo, redo, g, r, a, e) ==
    [undo |-> undo, redo |-> redo, grid |-> g, ret |-> r, action |-> a, exc |-> e]

\* UndoTracker.undo
UndoUndo(style, undo, redo, g) ==
    IF undo = <<>>
    THEN Moved(undo, redo, g, "None", NoAction, NoExc)
    ELSE LET popped == StackPop(undo)
             pushed == StackPush(redo, MAX_OPERATIONS, popped.item)
         IN IF pushed.exc # NoExc
            THEN Moved(popped.stack, redo, g, "None", NoAction, pushed.exc)
            ELSE LET applied == ActionUndoApply(style, g, popped.item)
                 IN IF applied.exc # NoExc
                    THEN Moved(popped.stack, pushed.stack, applied.grid,
                               "None", NoAction, applied.exc)
                    ELSE Moved(popped.stack, pushed.stack, applied.grid,
                               "Action", popped.item, NoExc)

\* redo that pushes the top of the redo stack without popping it
UndoRedoKeepsRedo(style, undo, redo, g) ==
    IF redo = <<>>
    THEN Moved(undo, redo, g, "None", NoAction, NoExc)
    ELSE LET top == redo[Len(redo)]
             pushed == StackPush(undo, MAX_OPERATIONS, top)
         IN IF pushed.exc # NoExc
            THEN Moved(undo, redo, g, "None", NoAction, pushed.exc)
            ELSE Moved(pushed.stack, redo, ActionRedoApply(style, g, top).grid,
                       "Action", top, NoExc)

\* UndoTracker.redo
UndoRedo(style, undo, redo, g) ==
    IF redo = <<>>
    THEN Moved(undo, redo, g, "None", NoAction, NoExc)
    ELSE LET popped == StackPop(redo)
             pushed == StackPush(undo, MAX_OPERATIONS, popped.item)
         IN IF pushed.exc # NoExc
            THEN Moved(undo, popped.stack, g, "None", NoAction, pushed.exc)
            ELSE LET applied == ActionRedoApply(style, g, popped.item)
                 IN IF applied.exc # NoExc
                    THEN Moved(pushed.stack, popped.stack, applied.grid,
                               "None", NoAction, applied.exc)
                    ELSE Moved(pushed.stack, popped.stack, applied.grid,
                               "Action", popped.item, NoExc)

----------------------------------------------------------------------------
\* ReplayTracker (replay.py): the recording queue replay_queue and the
\* playback queue playback_queue of pairs [action, is_undo], oldest first.
Pair(action, is_undo) == [action |-> action, is_undo |-> is_undo]

\* the pairs the caller records, those of the test under __main__: a
\* special action, a draw and the undo of the draw
ReplayPairs ==
    {Pair(SpecialAction, FALSE), Pair(DrawAction(1, 0), FALSE), Pair(DrawAction(1, 0), TRUE)}

\* ReplayTracker.add_action
ReplayAddAction(rq, action, is_undo) ==
    QueueAppend(rq, REPLAY_MAX_CAPACITY, Pair(action, is_undo))

\* start_replay that appends the recording to what is left of the playback
ReplayStartReplayAppends(rq, pq) == [replay |-> <<>>, playback |-> pq \o rq]

\* ReplayTracker.start_replay and reset_replay_queue
ReplayStartReplay(rq, pq) == [replay |-> <<>>, playback |-> rq]

\* what play_next_action leaves, with the pair it served (none: NoAction)
Played(rq, pq, g, r, pair) ==
    [replay |-> rq, playback |-> pq, grid |-> g, ret |-> r, exc |-> NoExc,
     action |-> pair.action, is_undo |-> pair.is_undo]

\* play_next_action without the try around serve: the exception of the empty
\* playback queue leaves the call
ReplayPlayNextActionUncaught(style, rq, pq, g) ==
    [Played(rq, pq, g, "None", Pair(NoAction, FALSE)) EXCEPT !.exc = "Exception"]

\* play_next_action serving the newest pair instead of the oldest
ReplayPlayNextActionNewest(style, rq, pq, g) ==
    IF pq = <<>>
    THEN Played(<<>>, pq, g, "True", Pair(NoAction, FALSE))
    ELSE LET pair == pq[Len(pq)]
             rest == SubSeq(pq, 1, Len(pq) - 1)
         IN IF pair.is_undo
            THEN Played(rq, rest, ActionUndoApply(style, g, pair.action).grid,
                        "False", pair)
            ELSE Played(rq, rest, ActionRedoApply(style, g, pair.action).grid,
                        "False", pair)

\* ReplayTracker.play_next_action
ReplayPlayNextAction(style, rq, pq, g) ==
    IF pq = <<>>
    THEN Played(<<>>, pq, g, "True", Pair(NoAction, FALSE))
    ELSE LET served == QueueServe(pq)
             action == served.item
         IN IF action.is_undo
            THEN LET applied == ActionUndoApply(style, g, action.action)
                 IN Played(rq, served.queue, applied.grid, "False", action)
            ELSE IF action.action.is_special
            THEN LET applied == GridSpecial(style, g)
                 IN [Played(rq, served.queue, applied.grid,
                            IF applied.exc = NoExc THEN "False" ELSE "None", action)
                        EXCEPT !.exc = applied.exc]
            ELSE LET applied == ActionRedoApply(style, g, action.action)
                 IN [Played(rq, served.queue, applied.grid,
                            IF applied.exc = NoExc THEN "False" ELSE "None", action)
                        EXCEPT !.exc = applied.exc]

----------------------------------------------------------------------------
VARIABLES
    kind,            \* the variant of the store under test
    store,           \* a LayerStore instance used on its own
    draw_style,      \* Grid.draw_style
    brush_size,      \* Grid.brush_size
    grid,            \* Grid.grid
    undo_stack,      \* UndoTracker.undo_stack
    redo_stack,      \* UndoTracker.redo_stack
    replay_queue,    \* ReplayTracker.replay_queue
    playback_queue,  \* ReplayTracker.playback_queue
    call,            \* the last call made: [op, layer, start, action, is_undo]
    ret,             \* what the last call returned: "True", "False", "None",
                     \* "Color" (in color) or "Action" (in returned)
    color,           \* the colour the last get_color returned
    returned,        \* the action the last undo or redo returned
    exc,             \* the exception that left the last call, or NoExc
    store_before,    \* history: the store just before the last call
    added,           \* history: the layers AdditiveLayerStore.add stored most
                     \* recently, oldest first, as many as the store holds
    special_called,  \* history: special() was called on the store
    before,          \* history: the lengths of the two queues just before
                     \* the last call on the ReplayTracker
    trip,            \* history: the actions painted since construction, then
                     \* the results of the undo calls, then of the redo calls
    tape             \* history: the pairs recorded since start_replay (while
                     \* no play_next_action call came between them), how many
                     \* of them start_replay handed to the playback, those the
                     \* playback has not played yet and the one the last
                     \* play_next_action was due to play

store_vars == <<kind, store, store_before, added, special_called>>

grid_vars == <<draw_style, brush_size, grid>>

undo_vars == <<undo_stack, redo_stack, trip>>

replay_vars == <<replay_queue, playback_queue, tape>>

result_vars == <<call, ret, color, returned, exc>>

vars == <<store_vars, grid_vars, undo_vars, replay_vars, result_vars, before>>

Call(op, layer, start, action, is_undo) ==
    [op |-> op, layer |-> layer, start |-> start, action |-> action, is_undo |-> is_undo]

NoCall == Call("init", None, <<>>, NoAction, FALSE)

StoreCallOf(op, layer, start) == Call(op, layer, start, NoAction, FALSE)

TrackerCallOf(op, action, is_undo) == Call(op, None, <<>>, action, is_undo)

\* how many pairs each queue of the ReplayTracker holds
Snapshot ==
    [replay |-> Len(replay_queue), playback |-> Len(playback_queue)]

NoTrip == [phase |-> "off", acts |-> <<>>, mark |-> NewGrid, undone |-> <<>>, redone |-> <<>>]

NewTrip == [NoTrip EXCEPT !.phase = "acting"]

NoPair == [action |-> NoAction, is_undo |-> FALSE, finished |-> TRUE]

Expected(pair) == [action |-> pair.action, is_undo |-> pair.is_undo, finished |-> FALSE]

NewTape == [recorded |-> <<>>, untouched |-> TRUE,
            total |-> 0, remaining |-> <<>>, known |-> FALSE, expected |-> NoPair]

\* the state after construction of the trackers and of a grid of style
\* style, with a store of variant k beside them
InitAll(k, style) ==
    /\ kind = k
    /\ store = NewStore
    /\ draw_style = style
    /\ brush_size = DEFAULT_BRUSH_SIZE
    /\ grid = NewGrid
    /\ undo_stack = <<>>
    /\ redo_stack = <<>>
    /\ replay_queue = <<>>
    /\ playback_queue = <<>>
    /\ call = NoCall
    /\ ret = "None"
    /\ color = <<>>
    /\ returned = NoAction
    /\ exc = NoExc
    /\ store_before = NewStore
    /\ added = <<>>
    /\ special_called = FALSE
    /\ before = [replay |-> 0, playback |-> 0]
    /\ trip = NewTrip
    /\ tape = NewTape

----------------------------------------------------------------------------
\* One LayerStore on its own.
InitStore == \E k \in DRAW_STYLE_OPTIONS : InitAll(k, DRAW_STYLE_SET)

\* the bookkeeping every call on the store shares
StoreCall(c, out) ==
    /\ call' = c
    /\ store_before' = store
    /\ store' = out.store
    /\ ret' = out.ret
    /\ color' = out.color
    /\ exc' = out.exc
    /\ UNCHANGED <<kind, returned, grid_vars, undo_vars, replay_vars, before>>

StoreAdd(layer) ==
    LET out == LayerStoreAdd(kind, store, layer)
    IN /\ StoreCall(StoreCallOf("add", layer, <<>>), out)
       /\ added' = IF kind = DRAW_STYLE_ADD /\ out.ret = "True"
                   THEN Append(added, layer)
                   ELSE added
       /\ UNCHANGED special_called

StoreErase(layer) ==
    LET out == LayerStoreErase(kind, store, layer)
    IN /\ StoreCall(StoreCallOf("erase", layer, <<>>), out)
       /\ added' = IF kind = DRAW_STYLE_ADD /\ out.ret = "True"
                   THEN Tail(added)
                   ELSE added
       /\ UNCHANGED special_called

StoreSpecial ==
    /\ StoreCall(StoreCallOf("special", None, <<>>), LayerStoreSpecial(kind, store))
    /\ special_called' = TRUE
    /\ UNCHANGED added

StoreGetColor(start) ==
    /\ StoreCall(StoreCallOf("get_color", None, start),
                 LayerStoreGetColor(kind, store, start))
    /\ UNCHANGED <<added, special_called>>

NextStore ==
    \/ \E layer \in Layers : StoreAdd(layer)
    \/ \E layer \in Layers : StoreErase(layer)
    \/ StoreSpecial
    \/ \E start \in StartColors : StoreGetColor(start)

SpecStore == InitStore /\ [][NextStore]_vars

----------------------------------------------------------------------------
\* A grid and its UndoTracker.
InitUndo == \E style \in DRAW_STYLE_OPTIONS : InitAll(DRAW_STYLE_SET, style)

Result(r, a, e) == [ret |-> r, action |-> a, exc |-> e]

\* history of a paint/undo/redo run: acts while only painting happened,
\* then the undo results while only undo was called, then the redo results
TripPaint(action, g) ==
    IF trip.phase = "acting" /\ Len(trip.acts) <= MAX_OPERATIONS
    THEN [trip EXCEPT !.acts = Append(@, action), !.mark = g]
    ELSE NoTrip

TripUndo(res) ==
    IF trip.phase = "acting" /\ Len(trip.acts) \in 1 .. MAX_OPERATIONS
    THEN [trip EXCEPT !.phase = "undoing", !.undone = <<res>>]
    ELSE IF trip.phase = "undoing" /\ Len(trip.undone) < Len(trip.acts)
    THEN [trip EXCEPT !.undone = Append(@, res)]
    ELSE NoTrip

TripRedo(res) ==
    IF trip.phase = "undoing" /\ Len(trip.undone) = Len(trip.acts)
    THEN [trip EXCEPT !.phase = "redoing", !.redone = <<res>>]
    ELSE IF trip.phase = "redoing" /\ Len(trip.redone) < Len(trip.acts)
    THEN [trip EXCEPT !.redone = Append(@, res)]
    ELSE NoTrip

\* the caller paints: the action's forward effect reaches the grid and the
\* action is handed to UndoTracker.add_action (not when the effect raised)
Paint(action) ==
    LET applied == ActionRedoApply(draw_style, grid, action)
        pushed == UndoAddAction(undo_stack, redo_stack, action)
        raised == applied.exc # NoExc
    IN /\ call' = TrackerCallOf(IF raised THEN "redo_apply" ELSE "add_action",
                                action, FALSE)
       /\ grid' = applied.grid
       /\ undo_stack' = IF raised THEN undo_stack ELSE pushed.undo
       /\ redo_stack' = IF raised THEN redo_stack ELSE pushed.redo
       /\ ret' = "None"
       /\ exc' = IF raised THEN applied.exc ELSE pushed.exc
       /\ trip' = IF raised THEN NoTrip ELSE TripPaint(action, applied.grid)
       /\ UNCHANGED <<draw_style, brush_size, color, returned, store_vars, replay_vars, before>>

UndoCall(op, moved) ==
    /\ call' = TrackerCallOf(op, NoAction, FALSE)
    /\ grid' = moved.grid
    /\ undo_stack' = moved.undo
    /\ redo_stack' = moved.redo
    /\ ret' = moved.ret
    /\ returned' = moved.action
    /\ exc' = moved.exc
    /\ UNCHANGED <<draw_style, brush_size, color, store_vars, replay_vars, before>>

Undo ==
    LET moved == UndoUndo(draw_style, undo_stack, redo_stack, grid)
    IN /\ UndoCall("undo", moved)
       /\ trip' = TripUndo(Result(moved.ret, moved.action, moved.exc))

Redo ==
    LET moved == UndoRedo(draw_style, undo_stack, redo_stack, grid)
    IN /\ UndoCall("redo", moved)
       /\ trip' = TripRedo(Result(moved.ret, moved.action, moved.exc))

NextUndo ==
    \/ \E action \in PaintActions : Paint(action)
    \/ Undo
    \/ Redo

SpecUndo == InitUndo /\ [][NextUndo]_vars

----------------------------------------------------------------------------
\* A grid and its ReplayTracker.
InitReplay == \E style \in DRAW_STYLE_OPTIONS : InitAll(DRAW_STYLE_SET, style)

ReplayCall(c, rq, pq, g, r, e) ==
    /\ call' = c
    /\ before' = Snapshot
    /\ replay_queue' = rq
    /\ playback_queue' = pq
    /\ grid' = g
    /\ ret' = r
    /\ exc' = e
    /\ UNCHANGED <<draw_style, brush_size, color, returned, store_vars, undo_vars>>

AddAction(action, is_undo) ==
    LET out == ReplayAddAction(replay_queue, action, is_undo)
    IN /\ ReplayCall(TrackerCallOf("replay.add_action", action, is_undo),
                     out.queue, playback_queue, grid, "None", out.exc)
       /\ tape' = IF out.exc = NoExc /\ tape.untouched
                  THEN [tape EXCEPT !.recorded = Append(@, Pair(action, is_undo))]
                  ELSE tape

StartReplay ==
    LET out == ReplayStartReplay(replay_queue, playback_queue)
    IN /\ ReplayCall(TrackerCallOf("start_replay", NoAction, FALSE),
                     out.replay, out.playback, grid, "None", NoExc)
       /\ tape' = [recorded |-> <<>>, untouched |-> TRUE,
                   total |-> IF tape.untouched THEN Len(tape.recorded) ELSE 0,
                   remaining |-> IF tape.untouched THEN tape.recorded ELSE <<>>,
                   known |-> tape.untouched, expected |-> NoPair]

PlayNextAction ==
    LET out == ReplayPlayNextAction(draw_style, replay_queue, playback_queue, grid)
    IN /\ ReplayCall(TrackerCallOf("play_next_action", out.action, out.is_undo),
                     out.replay, out.playback, out.grid, out.ret, out.exc)
       /\ tape' = [tape EXCEPT
                      !.untouched = @ /\ tape.recorded = <<>>,
                      !.recorded = <<>>,
                      !.remaining = IF @ = <<>> THEN @ ELSE Tail(@),
                      !.expected = IF tape.remaining = <<>>
                                   THEN NoPair
                                   ELSE Expected(Head(tape.remaining))]

NextReplay ==
    \/ \E pair \in ReplayPairs : AddAction(pair.action, pair.is_undo)
    \/ StartReplay
    \/ PlayNextAction

SpecReplay == InitReplay /\ [][NextReplay]_vars

----------------------------------------------------------------------------
\* Claims about one LayerStore, under SpecStore.

\* C7: SetLayerStore.add returns False and changes nothing iff the layer is
\* already the current one, otherwise returns True and the layer becomes
\* current; erase returns False iff there is no current layer, otherwise
\* returns True and clears it whatever its argument; with the special flag
\* off, get_color of a store with no layer is the start colour.
C7_SetAddErase ==
    kind = DRAW_STYLE_SET =>
        /\ exc = NoExc
        /\ call.op = "add" =>
              /\ ret \in {"True", "False"}
              /\ ret = "False" <=> store_before.current_layer = call.layer
              /\ ret = "False" => store = store_before
              /\ ret = "True" =>
                    store = [store_before EXCEPT !.current_layer = call.layer]
        /\ call.op = "erase" =>
              /\ ret \in {"True", "False"}
              /\ ret = "False" <=> store_before.current_layer = None
              /\ ret = "False" => store = store_before
              /\ ret = "True" => store = [store_before EXCEPT !.current_layer = None]
        /\ (call.op = "get_color" /\ store_before.current_layer = None
                /\ ~store_before.special_flag) => color = call.start

\* add(L1); add(L1): the second add finds L1 current and returns False
C7_Witness ==
    /\ kind = DRAW_STYLE_SET
    /\ call.op = "add"
    /\ ret = "False"
    /\ store.current_layer = call.layer

\* the colour after the stored layers were applied to start, oldest first
RECURSIVE ApplyInOrder(_, _)
ApplyInOrder(layers, start) ==
    IF layers = <<>> THEN start
    ELSE ApplyInOrder(Tail(layers), LayerApply(Head(layers), start))

C8_EraseAndGetColor ==
    /\ call.op = "erase" =>
          IF store_before.current_layers = <<>>
          THEN ret = "False" /\ store = store_before
          ELSE ret = "True"
               /\ store.current_layers = Tail(store_before.current_layers)
    /\ call.op = "get_color" =>
          color = ApplyInOrder(store_before.current_layers, call.start)

\* C8 as stated: the content of an AdditiveLayerStore is always the
\* successfully added layers in insertion order minus a prefix; erase removes
\* the oldest stored layer whatever its argument; get_color folds apply over
\* the stored layers from oldest to newest.
C8_AlwaysInsertionOrder ==
    kind = DRAW_STYLE_ADD =>
        /\ exc = NoExc
        /\ store.current_layers = added
        /\ C8_EraseAndGetColor

\* C8 amended: the content is the added layers in insertion order minus a
\* prefix as long as special() has not been called on the store; erase and
\* get_color are as stated in every state.
C8_AdditiveFifo ==
    kind = DRAW_STYLE_ADD =>
        /\ exc = NoExc
        /\ ~special_called => store.current_layers = added
        /\ C8_EraseAndGetColor

\* erase(x) removed the older of two different layers, x being neither
C8_Witness ==
    /\ kind = DRAW_STYLE_ADD
    /\ ~special_called
    /\ call.op = "erase"
    /\ ret = "True"
    /\ Len(store_before.current_layers) = 2
    /\ store_before.current_layers[1] # store_before.current_layers[2]
    /\ call.layer \notin {store_before.current_layers[1], store_before.current_layers[2]}
    /\ store.current_layers = <<store_before.current_layers[2]>>

Reverse(seq) == [i \in 1 .. Len(seq) |-> seq[Len(seq) + 1 - i]]

\* C9: AdditiveLayerStore.special reverses the stored order (same length,
\* same layers), does nothing to an empty store, and a second special()
\* right after the first restores the order the store had before the first.
C9_AdditiveSpecial ==
    /\ [](kind = DRAW_STYLE_ADD /\ call.op = "special" =>
            /\ exc = NoExc
            /\ store.current_layers = Reverse(store_before.current_layers)
            /\ store_before.current_layers = <<>> => store = store_before)
    /\ [][(kind = DRAW_STYLE_ADD /\ call.op = "special" /\ call'.op = "special") =>
            store' = store_before]_vars

\* special() has turned a full store of different layers around
C9_Witness ==
    /\ kind = DRAW_STYLE_ADD
    /\ call.op = "special"
    /\ Len(store.current_layers) = ADDITIVE_MAX_CAPACITY
    /\ store.current_layers # store_before.current_layers
    /\ store.current_layers[1] = store_before.current_layers[ADDITIVE_MAX_CAPACITY]

\* the active layers of a SequenceLayerStore
Active(s) == {s.current_layers_name[k] : k \in 1 .. Len(s.current_layers_name)}

\* the layer at 0-based position pos of a set of layers sorted by name
AtNamePosition(set, pos) ==
    CHOOSE l \in set : Cardinality({m \in set : NameLess(m, l)}) = pos

\* C10: SequenceLayerStore.special with k >= 1 active layers removes exactly
\* the layer at position floor((k-1)/2) of the active layers sorted by name
\* and leaves the others active; with k = 0 it does nothing.
C10_SequenceMedian ==
    (kind = DRAW_STYLE_SEQUENCE /\ call.op = "special") =>
        LET k == Cardinality(Active(store_before))
        IN /\ exc = NoExc
           /\ k = 0 => store = store_before
           /\ k >= 1 =>
                 LET median == AtNamePosition(Active(store_before), (k - 1) \div 2)
                 IN /\ Active(store) = Active(store_before) \ {median}
                    /\ Len(store.current_layers_name) = k - 1
                    /\ store.current_layers_index =
                           {l + 1 : l \in Active(store_before) \ {median}}

\* four active layers: the second in name order went, the other three stay
C10_Witness ==
    /\ kind = DRAW_STYLE_SEQUENCE
    /\ call.op = "special"
    /\ Cardinality(Active(store_before)) = 4
    /\ Cardinality(Active(store)) = 3
    /\ AtNamePosition(Active(store_before), 1) \notin Active(store)

----------------------------------------------------------------------------
\* Claims about the UndoTracker, under SpecUndo.

\* C1: after N <= MAX_OPERATIONS actions painted on a new grid and pushed
\* with add_action, N calls of undo and then N calls of redo leave the grid
\* as it was after the N actions, every call returns an action and the i-th
\* redo returns the action the (N+1-i)-th undo returned; for the three draw
\* styles and with special actions among the N.
C1_RoundTrip ==
    (trip.phase = "redoing" /\ Len(trip.redone) = Len(trip.acts)) =>
        LET n == Len(trip.acts)
        IN /\ grid = trip.mark
           /\ \A i \in 1 .. n :
                 /\ trip.undone[i].exc = NoExc
                 /\ trip.undone[i].ret = "Action"
                 /\ trip.redone[i].exc = NoExc
                 /\ trip.redone[i].ret = "Action"
                 /\ trip.redone[i].action = trip.undone[n + 1 - i].action

\* C2: right after any add_action, dropped or not, the redo stack is empty;
\* a redo that follows returns None and changes neither the grid nor the
\* undo stack.
C2_RedoInvalidation ==
    /\ [](call.op = "add_action" => (redo_stack = <<>> /\ exc = NoExc))
    /\ [][(call.op = "add_action" /\ call'.op = "redo") =>
            (ret' = "None" /\ exc' = NoExc /\ grid' = grid
                /\ undo_stack' = undo_stack /\ redo_stack' = <<>>)]_vars

\* an add_action dropped by a full undo stack, the redo stack empty after it
C2_Witness ==
    /\ call.op = "add_action"
    /\ Len(undo_stack) = MAX_OPERATIONS
    /\ undo_stack[MAX_OPERATIONS] # call.action
    /\ redo_stack = <<>>

\* the first n items of a sequence
FirstN(seq, n) == IF Len(seq) <= n THEN seq ELSE SubSeq(seq, 1, n)

\* C3: add_action on a full undo stack raises nothing and leaves the undo
\* stack as it is; after MAX_OPERATIONS + 1 pushes the undo stack holds the
\* first MAX_OPERATIONS actions, in order.
C3_CapacityBoundary ==
    /\ [][(call'.op = "add_action" /\ Len(undo_stack) = MAX_OPERATIONS) =>
            (exc' = NoExc /\ undo_stack' = undo_stack)]_vars
    /\ [](trip.phase = "acting" =>
            undo_stack = FirstN(trip.acts, MAX_OPERATIONS))

\* MAX_OPERATIONS + 1 actions were pushed, the last differs from the one before
C3_Witness ==
    /\ trip.phase = "acting"
    /\ call.op = "add_action"
    /\ Len(trip.acts) = MAX_OPERATIONS + 1
    /\ trip.acts[MAX_OPERATIONS + 1] # trip.acts[MAX_OPERATIONS]
    /\ Len(undo_stack) = MAX_OPERATIONS

----------------------------------------------------------------------------
\* Claims about the ReplayTracker, under SpecReplay.

\* the effect on the grid of playing one recorded pair
PairEffect(style, g, pair) ==
    IF pair.is_undo
    THEN ActionUndoApply(style, g, pair.action).grid
    ELSE ActionRedoApply(style, g, pair.action).grid

C5_StartReplaySnapshot ==
    [][call'.op = "start_replay" =>
          /\ exc' = NoExc
          /\ playback_queue' = replay_queue
          /\ replay_queue' = <<>>]_vars

\* start_replay replaced an unfinished playback by a recording of another
\* length
C5_Witness ==
    /\ call.op = "start_replay"
    /\ before.playback > 0
    /\ before.replay > 0
    /\ before.playback # before.replay
    /\ Len(playback_queue) = before.replay
    /\ replay_queue = <<>>

\* C6: ReplayTracker.add_action on a full recording queue raises nothing and
\* leaves the recording queue as it is.
C6_AddActionFullIsNoOp ==
    [][(call'.op = "replay.add_action"
            /\ Len(replay_queue) = REPLAY_MAX_CAPACITY) =>
          (exc' = NoExc /\ replay_queue' = replay_queue)]_vars

----------------------------------------------------------------------------
\* Further claims about one SequenceLayerStore, under SpecStore.

\* apply over the layers of a set, in ascending order of index, from layer i
RECURSIVE ApplyByIndex(_, _, _)
ApplyByIndex(set, c, i) ==
    IF i >= NumLayers
    THEN c
    ELSE ApplyByIndex(set, IF i \in set THEN LayerApply(i, c) ELSE c, i + 1)

\* C11: SequenceLayerStore.get_color returns the fold of apply over exactly
\* the active layers in ascending order of index, the layer of highest index
\* included, and start when no layer is active.
C11_SequenceApplicationOrder ==
    (kind = DRAW_STYLE_SEQUENCE /\ call.op = "get_color") =>
        /\ exc = NoExc
        /\ color = ApplyByIndex(Active(store_before), call.start, 0)

\* C12: on a SequenceLayerStore, for every layer L, add(L) returns False and
\* changes nothing iff L is active (or the store is full), else returns True
\* and L becomes active; erase(L) returns False and changes nothing iff L is
\* not active, else returns True and only L becomes inactive; neither raises.
C12_SequenceMembership ==
    (kind = DRAW_STYLE_SEQUENCE /\ call.op \in {"add", "erase"}) =>
        LET was == call.layer \in Active(store_before)
            full == Len(store_before.current_layers_name) >= SEQUENCE_MAX_CAPACITY
        IN /\ exc = NoExc
           /\ call.op = "add" =>
                 /\ ret = "False" <=> (was \/ full)
                 /\ ret = "False" => store = store_before
                 /\ ret = "True" =>
                       Active(store) = Active(store_before) \cup {call.layer}
           /\ call.op = "erase" =>
                 /\ ret = "False" <=> ~was
                 /\ ret = "False" => store = store_before
                 /\ ret = "True" =>
                       Active(store) = Active(store_before) \ {call.layer}

----------------------------------------------------------------------------
\* Further claims about the UndoTracker, under SpecUndo.

\* the grid after the first n of the actions acts were painted on a new grid
RECURSIVE GridAfter(_, _, _)
GridAfter(style, acts, n) ==
    IF n = 0
    THEN NewGrid
    ELSE ActionRedoApply(style, GridAfter(style, acts, n - 1), acts[n]).grid

\* C13: in every draw style, when the top of the undo stack is a special
\* action that Grid.special() applied, undo returns the action and brings
\* every square back to the state it had just before the special action.
C13_UndoSpecialIsInverse ==
    (/\ trip.phase = "undoing"
     /\ Len(trip.undone) = 1
     /\ trip.acts[Len(trip.acts)] = SpecialAction) =>
        /\ trip.undone[1].exc = NoExc
        /\ trip.undone[1].action = SpecialAction
        /\ grid = GridAfter(draw_style, trip.acts, Len(trip.acts) - 1)

----------------------------------------------------------------------------
\* A grid with its two trackers (Grid.__init__), one of them driven: the
\* UndoTracker by paint, undo and redo, or the ReplayTracker by add_action,
\* start_replay and play_next_action.
UndoOps == {"init", "add_action", "redo_apply", "undo", "redo"}

ReplayOps == {"init", "replay.add_action", "start_replay", "play_next_action"}

NextHistory ==
    \/ call.op \in UndoOps /\ NextUndo
    \/ call.op \in ReplayOps /\ NextReplay

SpecHistory == InitUndo /\ [][NextHistory]_vars

\* C14: undo on an empty undo stack and redo on an empty redo stack return
\* None, raise nothing and leave the two stacks and the grid as they are;
\* play_next_action on an empty playback queue returns True, raises nothing
\* and leaves the grid as it is.
C14_EmptyHistory ==
    /\ [][(call'.op = "undo" /\ undo_stack = <<>>) =>
            (ret' = "None" /\ exc' = NoExc
                /\ UNCHANGED <<undo_stack, redo_stack, grid>>)]_vars
    /\ [][(call'.op = "redo" /\ redo_stack = <<>>) =>
            (ret' = "None" /\ exc' = NoExc
                /\ UNCHANGED <<undo_stack, redo_stack, grid>>)]_vars
    /\ [][(call'.op = "play_next_action" /\ playback_queue = <<>>) =>
            (ret' = "True" /\ exc' = NoExc /\ grid' = grid)]_vars

\* a redo with nothing to redo, on a painted grid with a non-empty undo stack
C14_Witness ==
    /\ call.op = "redo"
    /\ ret = "None"
    /\ exc = NoExc
    /\ redo_stack = <<>>
    /\ undo_stack # <<>>
    /\ grid # NewGrid

----------------------------------------------------------------------------
\* The ReplayTracker fed with a pair for each branch of play_next_action:
\* the undo of a special action, the undo of a draw, a special action, a
\* draw and an action with an erasing step. The caller records while no
\* playback is under way, then replays.
BranchPairs ==
    {Pair(SpecialAction, TRUE), Pair(DrawAction(1, 0), TRUE),
     Pair(SpecialAction, FALSE), Pair(DrawAction(1, 0), FALSE),
     Pair(EraseAction(1, 0), FALSE)}

NextBranches ==
    \/ \E pair \in BranchPairs :
          playback_queue = <<>> /\ AddAction(pair.action, pair.is_undo)
    \/ StartReplay
    \/ PlayNextAction

SpecBranches == InitReplay /\ [][NextBranches]_vars

\* the effect on the grid the branch of play_next_action for a pair has
BranchEffect(style, g, pair) ==
    IF pair.is_undo
    THEN ActionUndoApply(style, g, pair.action).grid
    ELSE IF pair.action.is_special
    THEN GridSpecial(style, g).grid
    ELSE ActionRedoApply(style, g, pair.action).grid

\* C15: play_next_action on a non-empty playback queue serves the front
\* pair, applies exactly the effect of its branch (inverse effect when
\* is_undo, a failure in it absorbed; else grid.special() for a special
\* action; else the forward effect), raises nothing and returns False.
C15_ReplayBranches ==
    [][(call'.op = "play_next_action" /\ playback_queue # <<>>) =>
          /\ exc' = NoExc
          /\ ret' = "False"
          /\ playback_queue' = Tail(playback_queue)
          /\ grid' = BranchEffect(draw_style, grid, Head(playback_queue))]_vars

----------------------------------------------------------------------------
\* A further claim about the ReplayTracker, under SpecReplay.

\* C16: recording and playback are independent streams: add_action appends
\* its pair to the recording queue and leaves the playback queue alone, and
\* play_next_action, the call returning True included, leaves the recording
\* queue alone; so the recording queue start_replay hands over holds the
\* pairs added since the previous start_replay, in call order.
C16_RecordingIndependent ==
    /\ [][call'.op = "replay.add_action" =>
            /\ playback_queue' = playback_queue
            /\ exc' = NoExc =>
                  replay_queue' =
                      Append(replay_queue, Pair(call'.action, call'.is_undo))]_vars
    /\ [][call'.op = "play_next_action" => replay_queue' = replay_queue]_vars

----------------------------------------------------------------------------
\* Further claims about one AdditiveLayerStore, under SpecStore.

\* C17: AdditiveLayerStore.get_color leaves the store as it was, for every
\* size up to the capacity: same layers, same order, same length; a second
\* get_color with the same start returns the same colour and an erase that
\* follows removes the layer that was the oldest before the get_color.
C17_AdditiveGetColorFrame ==
    /\ []((kind = DRAW_STYLE_ADD /\ call.op = "get_color") =>
            (exc = NoExc /\ store = store_before))
    /\ [][(kind = DRAW_STYLE_ADD /\ call.op = "get_color"
              /\ call'.op = "get_color" /\ call'.start = call.start) =>
            color' = color]_vars
    /\ [][(kind = DRAW_STYLE_ADD /\ call.op = "get_color" /\ call'.op = "erase"
              /\ store_before.current_layers # <<>>) =>
            (ret' = "True"
                /\ store'.current_layers = Tail(store_before.current_layers))]_vars

\* get_color on a full store of different layers
C17_Witness ==
    /\ kind = DRAW_STYLE_ADD
    /\ call.op = "get_color"
    /\ Len(store_before.current_layers) = ADDITIVE_MAX_CAPACITY
    /\ store_before.current_layers[1] # store_before.current_layers[ADDITIVE_MAX_CAPACITY]
    /\ store.current_layers = store_before.current_layers
    /\ color = ApplyInOrder(store_before.current_layers, call.start)

\* C18: an AdditiveLayerStore holds between 0 and its capacity layers; add
\* on a full store returns False and leaves the stored sequence as it is,
\* else appends the layer as the newest and returns True; special() and
\* get_color() on a full store raise nothing.
C18_AdditiveCapacity ==
    kind = DRAW_STYLE_ADD =>
        /\ Len(store.current_layers) \in 0 .. ADDITIVE_MAX_CAPACITY
        /\ exc = NoExc
        /\ call.op = "add" =>
              IF Len(store_before.current_layers) = ADDITIVE_MAX_CAPACITY
              THEN ret = "False" /\ store = store_before
              ELSE /\ ret = "True"
                   /\ store.current_layers =
                          Append(store_before.current_layers, call.layer)
        /\ call.op = "special" =>
              Len(store.current_layers) = Len(store_before.current_layers)

\* special() on a full store of different layers
C18_Witness ==
    /\ kind = DRAW_STYLE_ADD
    /\ call.op = "special"
    /\ exc = NoExc
    /\ Len(store_before.current_layers) = ADDITIVE_MAX_CAPACITY
    /\ store.current_layers # store_before.current_layers
    /\ Len(store.current_layers) = ADDITIVE_MAX_CAPACITY

----------------------------------------------------------------------------
\* A grid whose squares are called one at a time (grid[x][y].add(layer),
\* .erase(layer), .special(), .get_color(start, ...)).
CellCallOf(op, cell, layer, start) ==
    [op |-> op, cell |-> cell, layer |-> layer, start |-> start,
     action |-> NoAction, is_undo |-> FALSE]

CellCall(c, out) ==
    /\ call' = c
    /\ grid' = [grid EXCEPT ![c.cell] = out.store]
    /\ ret' = out.ret
    /\ color' = out.color
    /\ exc' = out.exc
    /\ UNCHANGED <<draw_style, brush_size, returned, store_vars, undo_vars, replay_vars, before>>

CellAdd(cell, layer) ==
    CellCall(CellCallOf("add", cell, layer, <<>>),
             LayerStoreAdd(draw_style, grid[cell], layer))

CellErase(cell, layer) ==
    CellCall(CellCallOf("erase", cell, layer, <<>>),
             LayerStoreErase(draw_style, grid[cell], layer))

CellSpecial(cell) ==
    CellCall(CellCallOf("special", cell, None, <<>>),
             LayerStoreSpecial(draw_style, grid[cell]))

CellGetColor(cell, start) ==
    CellCall(CellCallOf("get_color", cell, None, start),
             LayerStoreGetColor(draw_style, grid[cell], start))

NextCells ==
    \/ \E cell \in Cells, layer \in Layers : CellAdd(cell, layer)
    \/ \E cell \in Cells, layer \in Layers : CellErase(cell, layer)
    \/ \E cell \in Cells : CellSpecial(cell)
    \/ \E cell \in Cells, start \in StartColors : CellGetColor(cell, start)

\* Grid(Grid.DRAW_STYLE_SET, x, y)
InitCells == InitAll(DRAW_STYLE_SET, DRAW_STYLE_SET)

SpecCells == InitCells /\ [][NextCells]_vars

\* the colour a SetLayerStore shows: its layer applied to start, if it has
\* one, then the invert layer if its flag is set
SetView(s, start) ==
    LET shown == IF s.current_layer = None
                 THEN start
                 ELSE LayerApply(s.current_layer, start)
    IN IF s.special_flag THEN LayerApply(invert, shown) ELSE shown

\* C19: in a grid of SetLayerStores every flag starts False; special() on a
\* square flips the flag of that square and changes nothing else, neither its
\* layer nor another square; add and erase change no flag; get_color changes
\* nothing and returns the layer applied to start (start without a layer),
\* inverted iff the flag is set, that is iff special() was called an odd
\* number of times on the square.
C19_SetSpecialPerCell ==
    /\ [](call.op = "init" => \A c \in Cells : ~grid[c].special_flag)
    /\ [][draw_style = DRAW_STYLE_SET =>
            /\ call'.op = "special" =>
                  /\ exc' = NoExc
                  /\ grid' = [grid EXCEPT ![call'.cell].special_flag = ~@]
            /\ call'.op \in {"add", "erase"} =>
                  /\ exc' = NoExc
                  /\ \A c \in Cells :
                        /\ grid'[c].special_flag = grid[c].special_flag
                        /\ c # call'.cell => grid'[c] = grid[c]
            /\ call'.op = "get_color" =>
                  /\ exc' = NoExc
                  /\ grid' = grid
                  /\ color' = SetView(grid[call'.cell], call'.start)]_vars

\* get_color on a square with a layer and the flag set, next to a square with
\* another layer and the flag not set
C19_Witness ==
    /\ draw_style = DRAW_STYLE_SET
    /\ call.op = "get_color"
    /\ grid[call.cell].special_flag
    /\ grid[call.cell].current_layer # None
    /\ color = LayerApply(invert,
                          LayerApply(grid[call.cell].current_layer, call.start))
    /\ \E c \in Cells :
          /\ ~grid[c].special_flag
          /\ grid[c].current_layer \notin {None, grid[call.cell].current_layer}

----------------------------------------------------------------------------
\* C20: in a SequenceLayerStore the name-ordered list and the index set
\* describe the same layers after any calls: a layer is in the list iff its
\* index (plus one) is in the set, no layer is twice in the list, the list
\* is sorted by name and the two views have the same size.
C20_SequenceViewsInSync ==
    kind = DRAW_STYLE_SEQUENCE =>
        LET names == store.current_layers_name
        IN /\ \A l \in Layers :
                 SortedContains(names, l) <=> (l + 1) \in store.current_layers_index
           /\ store.current_layers_index \subseteq {l + 1 : l \in Layers}
           /\ \A i, j \in 1 .. Len(names) : i < j => NameLess(names[i], names[j])
           /\ Len(names) = Cardinality(store.current_layers_index)

\* an erase that removed one of three active layers
C20_Witness ==
    /\ kind = DRAW_STYLE_SEQUENCE
    /\ call.op = "erase"
    /\ ret = "True"
    /\ Len(store_before.current_layers_name) = 3
    /\ Len(store.current_layers_name) = 2
    /\ store.current_layers_index = {l + 1 : l \in Active(store)}

----------------------------------------------------------------------------
\* The brush of a grid (Grid.increase_brush_size, decrease_brush_size), on a
\* grid whose squares are painted between the calls.
BrushCall(op, size) ==
    /\ call' = TrackerCallOf(op, NoAction, FALSE)
    /\ brush_size' = size
    /\ ret' = "None"
    /\ exc' = NoExc
    /\ UNCHANGED <<draw_style, grid, color, returned, store_vars, undo_vars,
                   replay_vars, before>>

\* increase_brush_size that does not stop at MAX_BRUSH
IncreaseBrushSizeUnbounded(size) == size + 1

\* Grid.increase_brush_size: the new brush_size
IncreaseBrushSize(size) == IF size = MAX_BRUSH THEN size ELSE size + 1

\* Grid.decrease_brush_size: the new brush_size
DecreaseBrushSize(size) == IF size = MIN_BRUSH THEN size ELSE size - 1

Increase == BrushCall("increase_brush_size", IncreaseBrushSize(brush_size))

Decrease == BrushCall("decrease_brush_size", DecreaseBrushSize(brush_size))

NextBrush ==
    \/ Increase
    \/ Decrease
    \/ NextCells

SpecBrush == InitCells /\ [][NextBrush]_vars

BrushOps == {"increase_brush_size", "decrease_brush_size"}

\* C21: a new Grid has brush_size = DEFAULT_BRUSH_SIZE; brush_size always
\* lies between MIN_BRUSH and MAX_BRUSH; increase at MAX_BRUSH and decrease
\* at MIN_BRUSH leave it as it is, else it changes by exactly 1; neither call
\* raises or changes a square of the grid.
C21_BrushSaturation ==
    /\ [](call.op = "init" => brush_size = DEFAULT_BRUSH_SIZE)
    /\ [](MIN_BRUSH <= brush_size /\ brush_size <= MAX_BRUSH)
    /\ [][call'.op = "increase_brush_size" =>
            /\ exc' = NoExc
            /\ grid' = grid
            /\ brush_size' = IF brush_size = MAX_BRUSH
                             THEN brush_size
                             ELSE brush_size + 1]_vars
    /\ [][call'.op = "decrease_brush_size" =>
            /\ exc' = NoExc
            /\ grid' = grid
            /\ brush_size' = IF brush_size = MIN_BRUSH
                             THEN brush_size
                             ELSE brush_size - 1]_vars
    /\ [][call'.op \notin BrushOps => brush_size' = brush_size]_vars

\* an increase at MAX_BRUSH on a painted grid
C21_Witness ==
    /\ call.op = "increase_brush_size"
    /\ brush_size = MAX_BRUSH
    /\ ret = "None"
    /\ grid # NewGrid

----------------------------------------------------------------------------
\* C22: in every state add_action, undo and redo reach, the undo stack and
\* the redo stack hold at most MAX_OPERATIONS actions together; so the push
\* on the redo stack in undo and the push on the undo stack in redo, which
\* test nothing, never meet a full stack, and the redo stack is empty
\* whenever the undo stack is full.
C22_UndoSizeInvariant ==
    /\ Len(undo_stack) + Len(redo_stack) <= MAX_OPERATIONS
    /\ call.op \in {"undo", "redo"} => exc # "Exception"
    /\ Len(undo_stack) = MAX_OPERATIONS => redo_stack = <<>>

\* a redo whose push filled the undo stack
C22_Witness ==
    /\ call.op = "redo"
    /\ ret = "Action"
    /\ exc = NoExc
    /\ Len(undo_stack) = MAX_OPERATIONS
    /\ redo_stack = <<>>

====
